---- MODULE Spec2Model ----
(***************************************************************************)
(* Quota-governed task orchestration of the tg_brainai bot: the polling    *)
(* loops that drive a remote generation job (image, video, upscale) and    *)
(* the ongoingTasks admission gate of the image handlers, the update-id     *)
(* cache of the webhook, the per-period usage counters of the quota store, *)
(* the creation of the quota row, the remaining-count functions, the       *)
(* quota check of the generation handlers, the calculator of the anchored  *)
(* quota period, the premium flag and the reset of a user, and the waits   *)
(* for a fal.ai task (images and the poll callback of the fal video).      *)
(*                                                                         *)
(* A handler is an async function: it runs without interruption up to its  *)
(* next await, so every action below is the code between two awaits.  A    *)
(* poll tick is the async callback of setInterval; the runtime starts a    *)
(* new callback at every interval whether or not an earlier one has        *)
(* returned, so several ticks of one poller may be in flight.              *)
(***************************************************************************)
EXTENDS Bags, FiniteSets, Integers, Naturals, Sequences, TLC

\* ------------------------------------------------------------------------
\* Bounds of the model
\* ------------------------------------------------------------------------
MaxInflight == 2     \* ticks of one poller that may be awaiting at once
ExtraTicks == 2      \* ticks explored beyond maxAttempts
MaxRequests == 2     \* generation requests received by the bot
ExtraUpdates == 2    \* updates recorded beyond MAX_PROCESSED_IDS
MaxConnections == 1  \* webhook requests Telegram keeps unanswered at once
MaxPeriods == 2      \* quota periods the clock passes through
MaxDays == 100       \* days the clock of the period calculator runs for
RequestLatency == 2500  \* ms a status check of fal.ai may take

\* configured weekly limits of a free user (environment variables
\* DEFAULT_TEXT_REQUESTS, DEFAULT_IMAGE_REQUESTS, DEFAULT_VIDEO_REQUESTS)
DEFAULT_TEXT_REQUESTS == 2
DEFAULT_IMAGE_REQUESTS == 1
DEFAULT_VIDEO_REQUESTS == 1

\* ------------------------------------------------------------------------
\* Program constants
\* ------------------------------------------------------------------------
ImageMaxAttempts == 60
VideoMaxAttempts == 180
UpscaleMaxAttempts == 40
FalVideoMaxWaitTime == 600000
FalVideoPollInterval == 5000
FalVideoMaxAttempts == FalVideoMaxWaitTime \div FalVideoPollInterval
FalImageMaxWaitTime == 300000
FalImagePollInterval == 5000
maxTransientErrors == 5
MAX_PROCESSED_IDS == 1000

Kinds == {"image", "video", "upscale"}

maxAttempts(k) ==
  CASE k = "image" -> ImageMaxAttempts
    [] k = "video" -> VideoMaxAttempts
    [] k = "upscale" -> UpscaleMaxAttempts
    [] k = "falvideo" -> FalVideoMaxAttempts

VARIABLES
  kind,             \* which polling loop this poller is
  timer,            \* TRUE while the setInterval timer has not been cleared
  attempts,         \* the closure variable attempts
  transientErrors,  \* the closure variable transientErrors (video only)
  lastStatus,       \* the closure variable lastStatus
  inflight,         \* bag of tick callbacks suspended at an await
  results,          \* terminal messages sent to the user, in order
  consumed,         \* number of decreaseRequests calls made by the poller
  started,          \* history: number of tick callbacks started
  onlyInProgress,   \* history: every status response so far was in progress
  transientSeen,    \* history: some status check failed transiently
  previousValue,    \* history: status and progress of the response before
  deliveryThrew     \* history: sending a result to the user threw

pollerVars == <<kind, timer, attempts, transientErrors, lastStatus, inflight,
                results, consumed, started, onlyInProgress, transientSeen,
                previousValue,
                deliveryThrew>>

VARIABLES
  ongoingTasks,     \* keys of the ongoingTasks map of handler-utils
  req,              \* the generation requests: user, flow, position, outcome
  polling           \* requests whose poll timer has not been cleared

gateVars == <<ongoingTasks, req, polling>>

VARIABLES
  processedUpdateIds,  \* the Set processedUpdateIds, in insertion order
  handling,            \* bag of update ids whose handlers are awaiting
  handledTwice,        \* history: update ids whose handlers were run again
  evicted,             \* history: update ids dropped from processedUpdateIds
  nextUpdateId,        \* the update_id of the next new update
  reply,               \* history: the latest webhook reply
  threw                \* history: ids Telegram may send again whose handlers threw

dedupVars == <<processedUpdateIds, handling, handledTwice, evicted,
               nextUpdateId, reply, threw>>

VARIABLES
  period,           \* the quota period the clock is in (its period_start)
  week,             \* the calendar week the clock is in
  user_quotas,      \* rows of table user_quotas of one user, by period_start
  call,             \* bag of request handlers that check and consume quota
  resetCall,        \* the resetUserRequests call
  committed         \* history: units of successful decreaseRequests per row

quotaVars == <<period, week, user_quotas, call, resetCall, committed>>

VARIABLES
  now,              \* the clock, new Date()
  userRow,          \* the row of gpt_tg_users the period is computed for
  anchored,         \* the last result of getAnchoredPeriodForUser
  previous,         \* the result before it
  quotaRow,         \* the usage row getRemainingRequests has fetched
  asked,            \* the resource and amount canConsumeRequest is asked for
  answer,           \* what getRemainingRequests and canConsumeRequest return
  userCall          \* the resetUserRequests call and the user it has read

calcVars == <<now, userRow, anchored, previous, quotaRow, asked, answer, userCall>>

VARIABLES
  task,             \* the status of the request in the queue of fal.ai
  wait              \* the waitForFalTaskCompletion call and its clock

waitVars == <<task, wait>>

vars == <<pollerVars, gateVars, dedupVars, quotaVars, calcVars, waitVars>>

\* ------------------------------------------------------------------------
\* Status-check responses
\* ------------------------------------------------------------------------
Resp(success, hasData, status, progress, url) ==
  [success |-> success, hasData |-> hasData, status |-> status,
   progress |-> progress, url |-> url]

NoResp == Resp(FALSE, FALSE, "", 0, FALSE)

\* getTaskStatus: {success: false} on any request error, otherwise the body
GoApiResponses ==
  { Resp(FALSE, FALSE, "", 0, FALSE),
    Resp(TRUE, FALSE, "", 0, FALSE),
    Resp(TRUE, TRUE, "pending", 0, FALSE),
    Resp(TRUE, TRUE, "processing", 0, FALSE),
    Resp(TRUE, TRUE, "processing", 50, FALSE),
    Resp(TRUE, TRUE, "completed", 0, TRUE),
    Resp(TRUE, TRUE, "completed", 0, FALSE),
    Resp(TRUE, TRUE, "failed", 0, FALSE) }

mapKlingStatus(status) ==
  CASE status = "completed" -> "succeeded"
    [] status = "failed" -> "failed"
    [] OTHER -> "processing"

\* getPredictionStatus: {success: false} on any request error, otherwise the
\* mapped status and the video url when the response carries one
PredictionResponses ==
  { Resp(FALSE, FALSE, "", 0, FALSE) } \cup
  { Resp(TRUE, TRUE, mapKlingStatus(s), 0, FALSE) :
      s \in {"pending", "staged", "processing", "completed", "failed"} } \cup
  { Resp(TRUE, TRUE, mapKlingStatus("completed"), 0, TRUE) }

Responses(k) == IF k = "video" THEN PredictionResponses ELSE GoApiResponses

completedStatus(k) == IF k = "video" THEN "succeeded" ELSE "completed"

InProgress(r) ==
  r.success /\ r.hasData /\ r.status \notin {"completed", "succeeded", "failed"}

\* ------------------------------------------------------------------------
\* Poll ticks
\* ------------------------------------------------------------------------
Tick(pc, resp) == [pc |-> pc, resp |-> resp]

Suspended(pc) == { t \in BagToSet(inflight) : t.pc = pc }

Return(t) == inflight' = inflight (-) SetToBag({t})

Suspend(t, pc, resp) ==
  inflight' = (inflight (-) SetToBag({t})) (+) SetToBag({Tick(pc, resp)})

\* clearInterval, one message to the user, return
Terminal(t, msg) ==
  /\ timer' = FALSE
  /\ results' = Append(results, msg)
  /\ Return(t)

\* the if / else-if chain on the status that ends a tick
StatusBranch(t, r) ==
  IF r.status = completedStatus(kind)
  THEN IF r.url
       THEN /\ timer' = FALSE
            /\ Suspend(t, "deliver", NoResp)
            /\ UNCHANGED results
       ELSE Terminal(t, "nourl")
  ELSE IF r.status = "failed"
       THEN Terminal(t, "failed")
       ELSE IF attempts >= maxAttempts(kind)
            THEN Terminal(t, "timeout")
            ELSE Return(t) /\ UNCHANGED <<timer, results>>

History(r) ==
  /\ onlyInProgress' = (onlyInProgress /\ InProgress(r))
  /\ transientSeen' = (transientSeen \/ ~r.success)
  /\ previousValue' = IF r.success /\ r.hasData
                       THEN <<r.status, r.progress>>
                       ELSE previousValue

\* no request is being handled
GateIdle ==
  /\ ongoingTasks = {}
  /\ req = [r \in 1..MaxRequests |-> [user |-> "", flow |-> "", pc |-> "new", out |-> ""]]
  /\ polling = {}

\* the webhook has received no update
DedupIdle ==
  /\ processedUpdateIds = <<>>
  /\ handling = EmptyBag
  /\ handledTwice = {}
  /\ evicted = {}
  /\ nextUpdateId = 1
  /\ reply = [id |-> 0, status |-> "", duplicate |-> FALSE]
  /\ threw = {}

\* no quota row exists and no handler is running
QuotaIdle ==
  /\ period = 1
  /\ week = 1
  /\ user_quotas = <<>>
  /\ call = EmptyBag
  /\ resetCall = [pc |-> "new", row |-> 0]
  /\ committed = <<>>

\* a Date: whole days since 1970-01-01 UTC and the milliseconds of the day
Date(day, ms) == [day |-> day, ms |-> ms]

\* a timestamp or date column as the store returns it: an ISO string with
\* its year, month (1..12), day of the month and milliseconds of the day
Iso(year, month, date, ms) == [year |-> year, month |-> month, date |-> date, ms |-> ms]

\* a column that is null
Null == Iso(0, 0, 0, 0)

\* no period has been computed
NoPeriod == [start |-> <<0, 0, 0>>, end |-> <<0, 0, 0>>, at |-> Date(0, 0)]

\* no period is being computed
PeriodIdle ==
  /\ now = Date(0, 0)
  /\ userRow = [is_premium |-> FALSE, premium_started_at |-> Null,
                free_period_start |-> Null, created_at |-> Null]
  /\ anchored = NoPeriod
  /\ previous = NoPeriod

\* getRemainingRequests has not been called
RemainingIdle ==
  /\ quotaRow = [text_used |-> 0, image_used |-> 0, video_used |-> 0]
  /\ asked = [limits |-> [text |-> 0, image |-> 0, video |-> 0],
              type |-> "", amount |-> 0]
  /\ answer = [pc |-> "new", remaining |-> 0, canConsume |-> FALSE]

\* no resetUserRequests call is running
NoUserCall == [pc |-> "idle", isPremium |-> FALSE, is_premium |-> FALSE]

UserIdle == userCall = NoUserCall

CalcIdle == PeriodIdle /\ RemainingIdle /\ UserIdle

\* no wait for a fal.ai task is running
NoWait == [fn |-> "", maxWaitTime |-> 0, pollInterval |-> 0, pc |-> "idle",
           elapsed |-> 0, outcome |-> "", reported |-> {}]

WaitIdle == task = "" /\ wait = NoWait

InitPoller ==
  /\ CalcIdle
  /\ GateIdle
  /\ DedupIdle
  /\ QuotaIdle
  /\ kind \in Kinds
  /\ timer = TRUE
  /\ attempts = 0
  /\ transientErrors = 0
  /\ lastStatus = ""
  /\ inflight = EmptyBag
  /\ results = <<>>
  /\ consumed = 0
  /\ started = 0
  /\ onlyInProgress = TRUE
  /\ transientSeen = FALSE
  /\ previousValue = <<"", 0>>
  /\ WaitIdle
  /\ deliveryThrew = FALSE

\* attempts++ at the head of the callback
CountAttemptSkipped == UNCHANGED attempts

CountAttempt == attempts' = attempts + 1

\* The interval elapses: a new callback starts, counts its attempt and
\* issues the status check.
TimerFire ==
  /\ timer
  /\ BagCardinality(inflight) < MaxInflight
  /\ attempts < maxAttempts(kind) + ExtraTicks
  /\ started < maxAttempts(kind) + ExtraTicks
  /\ CountAttempt
  /\ started' = started + 1
  /\ inflight' = inflight (+) SetToBag({Tick("status", NoResp)})
  /\ UNCHANGED <<kind, timer, transientErrors, lastStatus, results, consumed,
                 onlyInProgress, transientSeen, previousValue, deliveryThrew>>
  /\ UNCHANGED <<gateVars, dedupVars, quotaVars, calcVars, waitVars>>

\* image: getTaskStatus resolves
ImageStatusResolve(t, r) ==
  /\ kind = "image"
  /\ t \in Suspended("status")
  /\ r \in Responses(kind)
  /\ History(r)
  /\ IF ~r.success
     THEN Terminal(t, "statusError") /\ UNCHANGED lastStatus
     ELSE IF ~r.hasData
          THEN Return(t) /\ UNCHANGED <<timer, results, lastStatus>>
          ELSE IF r.status # lastStatus \/ r.progress > 0
               THEN /\ lastStatus' = r.status
                    /\ Suspend(t, "notify", r)
                    /\ UNCHANGED <<timer, results>>
               ELSE StatusBranch(t, r) /\ UNCHANGED lastStatus
  /\ UNCHANGED <<kind, attempts, transientErrors, consumed, started,
                 deliveryThrew>>
  /\ UNCHANGED <<gateVars, dedupVars, quotaVars, calcVars, waitVars>>

\* video: getPredictionStatus resolves
VideoStatusResolve(t, r) ==
  /\ kind = "video"
  /\ t \in Suspended("status")
  /\ r \in Responses(kind)
  /\ History(r)
  /\ IF ~r.success
     THEN /\ transientErrors' = transientErrors + 1
          /\ IF transientErrors + 1 >= maxTransientErrors
             THEN Terminal(t, "statusError")
             ELSE Return(t) /\ UNCHANGED <<timer, results>>
          /\ UNCHANGED lastStatus
     ELSE /\ transientErrors' = 0
          /\ IF r.status # lastStatus
             THEN /\ lastStatus' = r.status
                  /\ Suspend(t, "notify", r)
                  /\ UNCHANGED <<timer, results>>
             ELSE StatusBranch(t, r) /\ UNCHANGED lastStatus
  /\ UNCHANGED <<kind, attempts, consumed, started, deliveryThrew>>
  /\ UNCHANGED <<gateVars, dedupVars, quotaVars, calcVars, waitVars>>

\* upscale: getTaskStatus resolves
UpscaleStatusResolve(t, r) ==
  /\ kind = "upscale"
  /\ t \in Suspended("status")
  /\ r \in Responses(kind)
  /\ History(r)
  /\ IF r.success /\ r.hasData
     THEN StatusBranch(t, r)
     ELSE Return(t) /\ UNCHANGED <<timer, results>>
  /\ UNCHANGED <<kind, attempts, transientErrors, lastStatus, consumed,
                 started, deliveryThrew>>
  /\ UNCHANGED <<gateVars, dedupVars, quotaVars, calcVars, waitVars>>

\* the status message has been edited: the tick goes on to the status chain
NotifyResolve(t) ==
  /\ t \in Suspended("notify")
  /\ StatusBranch(t, t.resp)
  /\ UNCHANGED <<kind, attempts, transientErrors, lastStatus, consumed,
                 started, onlyInProgress, transientSeen, previousValue,
                 deliveryThrew>>
  /\ UNCHANGED <<gateVars, dedupVars, quotaVars, calcVars, waitVars>>

\* the result has been sent (ok) or sending it threw
DeliverResolve(t, ok) ==
  /\ t \in Suspended("deliver")
  /\ IF ok
     THEN /\ results' = Append(results, "result")
          /\ consumed' = consumed + 1
          /\ UNCHANGED timer
     ELSE /\ timer' = FALSE
          /\ results' = IF kind = "upscale" THEN results
                        ELSE Append(results, "monitorError")
          /\ UNCHANGED consumed
  /\ deliveryThrew' = (deliveryThrew \/ ~ok)
  /\ Return(t)
  /\ UNCHANGED <<kind, attempts, transientErrors, lastStatus, started,
                 onlyInProgress, transientSeen, previousValue>>
  /\ UNCHANGED <<gateVars, dedupVars, quotaVars, calcVars, waitVars>>

NextPoller ==
  \/ TimerFire
  \/ \E t \in BagToSet(inflight) : \E r \in Responses(kind) : ImageStatusResolve(t, r)
  \/ \E t \in BagToSet(inflight) : \E r \in Responses(kind) : VideoStatusResolve(t, r)
  \/ \E t \in BagToSet(inflight) : \E r \in Responses(kind) : UpscaleStatusResolve(t, r)
  \/ \E t \in BagToSet(inflight) : NotifyResolve(t)
  \/ \E t \in BagToSet(inflight) : \E ok \in BOOLEAN : DeliverResolve(t, ok)

SpecPoller == InitPoller /\ [][NextPoller]_vars

\* ------------------------------------------------------------------------
\* Generation handlers and the ongoingTasks admission gate
\* ------------------------------------------------------------------------
Users == {"u1", "u2"}

\* goapi: handlePhotoGeneration, Midjourney branch (polls with setInterval)
\* fal:   handleFalPhotoGeneration (awaits the generation inside the handler)
\* video: handleVideoGeneration (polls with setInterval, no gate)
Flows == {"goapi", "fal", "video"}

Category(f) == IF f = "video" THEN "video" ELSE "image"

Reqs == 1..MaxRequests

\* ongoingTasks.has(userId)
GateHasNever(u) == FALSE

GateHas(u) == u \in ongoingTasks

\* ongoingTasks.set(userId, true)
GateSet(u) == ongoingTasks' = ongoingTasks \cup {u}

\* ongoingTasks.delete(userId)
GateDeleteSkipped(u) == UNCHANGED ongoingTasks

GateDelete(u) == ongoingTasks' = ongoingTasks \ {u}

Goto(r, pc) == req' = [req EXCEPT ![r].pc = pc]

Done(r, out) == req' = [req EXCEPT ![r].pc = "done", ![r].out = out]

InitGate ==
  /\ CalcIdle
  /\ GateIdle
  /\ DedupIdle
  /\ QuotaIdle
  /\ kind = "image"
  /\ timer = FALSE
  /\ attempts = 0
  /\ transientErrors = 0
  /\ lastStatus = ""
  /\ inflight = EmptyBag
  /\ results = <<>>
  /\ consumed = 0
  /\ started = 0
  /\ onlyInProgress = TRUE
  /\ transientSeen = FALSE
  /\ previousValue = <<"", 0>>
  /\ WaitIdle
  /\ deliveryThrew = FALSE

\* a message of user u arrives in the mode served by flow f; the handler
\* runs up to its user lookup
Receive(r, u, f) ==
  /\ req[r].pc = "new"
  /\ req' = [req EXCEPT ![r] = [user |-> u, flow |-> f, pc |-> "findUser", out |-> ""]]
  /\ UNCHANGED <<ongoingTasks, polling>>
  /\ UNCHANGED <<pollerVars, dedupVars, quotaVars, calcVars, waitVars>>

\* image handlers: the user lookup resolves; next await is canConsumeRequest
ImageFindUserResolve(r, found) ==
  /\ req[r].pc = "findUser"
  /\ req[r].flow \in {"goapi", "fal"}
  /\ IF found THEN Goto(r, "quota") ELSE Done(r, "noUser")
  /\ UNCHANGED <<ongoingTasks, polling>>
  /\ UNCHANGED <<pollerVars, dedupVars, quotaVars, calcVars, waitVars>>

\* video handler: findUser resolves; hasRequestsLeft and the parameter
\* validation run synchronously, then the status message is sent
VideoFindUserResolve(r, found, valid) ==
  /\ req[r].pc = "findUser"
  /\ req[r].flow = "video"
  /\ IF ~found THEN Done(r, "quota")
     ELSE IF ~valid THEN Done(r, "badPrompt")
     ELSE Goto(r, "statusMsg")
  /\ UNCHANGED <<ongoingTasks, polling>>
  /\ UNCHANGED <<pollerVars, dedupVars, quotaVars, calcVars, waitVars>>

\* image handlers: canConsumeRequest resolves; the gate is consulted and
\* set with no await in between, then the status message is sent
QuotaResolve(r, allowed, valid) ==
  /\ req[r].pc = "quota"
  /\ IF ~allowed
     THEN Done(r, "quota") /\ UNCHANGED ongoingTasks
     ELSE IF GateHas(req[r].user)
          THEN Done(r, "wait") /\ UNCHANGED ongoingTasks
          ELSE IF ~valid
               THEN Done(r, "badPrompt") /\ UNCHANGED ongoingTasks
               ELSE GateSet(req[r].user) /\ Goto(r, "statusMsg")
  /\ UNCHANGED polling
  /\ UNCHANGED <<pollerVars, dedupVars, quotaVars, calcVars, waitVars>>

\* sending the initial status message resolves (ok) or rejects; the await
\* stands before the try block, so a rejection leaves the handler at once
StatusMsgResolve(r, ok) ==
  /\ req[r].pc = "statusMsg"
  /\ IF ok THEN Goto(r, "submit") ELSE Done(r, "threw")
  /\ UNCHANGED <<ongoingTasks, polling>>
  /\ UNCHANGED <<pollerVars, dedupVars, quotaVars, calcVars, waitVars>>

SubmitResults == {"ok", "error", "noId", "throw"}

\* goapi: generateImage resolves; on a task id the poll timer is created
\* and the handler returns through its finally block
GoapiSubmitResolve(r, res) ==
  /\ req[r].pc = "submit"
  /\ req[r].flow = "goapi"
  /\ res \in SubmitResults
  /\ IF res = "ok"
     THEN polling' = polling \cup {r} /\ Done(r, "polling")
     ELSE UNCHANGED polling /\ Done(r, "failed")
  /\ GateDelete(req[r].user)
  /\ UNCHANGED <<pollerVars, dedupVars, quotaVars, calcVars, waitVars>>

\* video: generateVideo resolves; on a prediction id the poll timer is
\* created
VideoSubmitResolve(r, res) ==
  /\ req[r].pc = "submit"
  /\ req[r].flow = "video"
  /\ res \in SubmitResults
  /\ IF res = "ok"
     THEN polling' = polling \cup {r} /\ Done(r, "polling")
     ELSE UNCHANGED polling /\ Done(r, "failed")
  /\ UNCHANGED ongoingTasks
  /\ UNCHANGED <<pollerVars, dedupVars, quotaVars, calcVars, waitVars>>

\* fal: generateImageWithFal resolves; with images the handler goes on to
\* send them, otherwise it returns through its finally block
FalGenerateResolve(r, res) ==
  /\ req[r].pc = "submit"
  /\ req[r].flow = "fal"
  /\ res \in SubmitResults
  /\ IF res = "ok"
     THEN Goto(r, "deliver") /\ UNCHANGED ongoingTasks
     ELSE Done(r, "failed") /\ GateDelete(req[r].user)
  /\ UNCHANGED polling
  /\ UNCHANGED <<pollerVars, dedupVars, quotaVars, calcVars, waitVars>>

\* fal: the images have been sent (or sending threw): finally block
FalDeliverResolve(r, ok) ==
  /\ req[r].pc = "deliver"
  /\ Done(r, IF ok THEN "delivered" ELSE "failed")
  /\ GateDelete(req[r].user)
  /\ UNCHANGED polling
  /\ UNCHANGED <<pollerVars, dedupVars, quotaVars, calcVars, waitVars>>

\* a tick of the request's poller reaches a terminal branch and clears the
\* interval
PollEnd(r) ==
  /\ r \in polling
  /\ polling' = polling \ {r}
  /\ UNCHANGED <<ongoingTasks, req>>
  /\ UNCHANGED <<pollerVars, dedupVars, quotaVars, calcVars, waitVars>>

NextGate ==
  \/ \E r \in Reqs : \E u \in Users : \E f \in Flows : Receive(r, u, f)
  \/ \E r \in Reqs : \E found \in BOOLEAN : ImageFindUserResolve(r, found)
  \/ \E r \in Reqs : \E found \in BOOLEAN : \E valid \in BOOLEAN : VideoFindUserResolve(r, found, valid)
  \/ \E r \in Reqs : \E allowed \in BOOLEAN : \E valid \in BOOLEAN : QuotaResolve(r, allowed, valid)
  \/ \E r \in Reqs : \E ok \in BOOLEAN : StatusMsgResolve(r, ok)
  \/ \E r \in Reqs : \E res \in SubmitResults : GoapiSubmitResolve(r, res)
  \/ \E r \in Reqs : \E res \in SubmitResults : VideoSubmitResolve(r, res)
  \/ \E r \in Reqs : \E res \in SubmitResults : FalGenerateResolve(r, res)
  \/ \E r \in Reqs : \E ok \in BOOLEAN : FalDeliverResolve(r, ok)
  \/ \E r \in Reqs : PollEnd(r)

SpecGate == InitGate /\ [][NextGate]_vars

\* ------------------------------------------------------------------------
\* Webhook: update-id cache of WebhookHandler.processUpdate
\* ------------------------------------------------------------------------
Range(s) == { s[i] : i \in 1..Len(s) }

\* processedUpdateIds.has(updateId)
HasNever(id) == FALSE

Has(id) == id \in Range(processedUpdateIds)

\* processedUpdateIds.add(updateId): a Set keeps insertion order and holds
\* a value once
Add(s, id) == IF id \in Range(s) THEN s ELSE Append(s, id)

\* Array.from(set).slice(-MAX_PROCESSED_IDS) when the size exceeds the
\* maximum
EvictNewest(s) ==
  IF Len(s) > MAX_PROCESSED_IDS THEN SubSeq(s, 1, MAX_PROCESSED_IDS) ELSE s

Evict(s) ==
  IF Len(s) > MAX_PROCESSED_IDS
  THEN SubSeq(s, Len(s) - MAX_PROCESSED_IDS + 1, Len(s))
  ELSE s

\* reply of the route to a duplicate: processUpdate returned
DuplicateReplyError == "error"

DuplicateReply == "ok"

\* Telegram sends each new update once and may send again the first update
\* it ever sent and the latest one
Deliverable ==
  { id \in {1, nextUpdateId - 1, nextUpdateId} : id >= 1 }

InitDedup ==
  /\ CalcIdle
  /\ DedupIdle
  /\ GateIdle
  /\ QuotaIdle
  /\ kind = "image"
  /\ timer = FALSE
  /\ attempts = 0
  /\ transientErrors = 0
  /\ lastStatus = ""
  /\ inflight = EmptyBag
  /\ results = <<>>
  /\ consumed = 0
  /\ started = 0
  /\ onlyInProgress = TRUE
  /\ transientSeen = FALSE
  /\ previousValue = <<"", 0>>
  /\ WaitIdle
  /\ deliveryThrew = FALSE

\* every update below nextUpdateId has been delivered, and its handlers
\* run, when it was new
Issued(id) == id < nextUpdateId

\* POST /webhook with update id: processUpdate runs up to the first await
\* of the update's handler, or returns at once for a duplicate.  Telegram
\* keeps at most MaxConnections requests unanswered and does not run more
\* than MaxConnections updates ahead of an unanswered one.
Webhook(id) ==
  /\ id \in Deliverable
  /\ nextUpdateId' = IF id = nextUpdateId THEN nextUpdateId + 1 ELSE nextUpdateId
  /\ IF Has(id)
     THEN /\ reply' = [id |-> id, status |-> DuplicateReply, duplicate |-> TRUE]
          /\ UNCHANGED <<processedUpdateIds, handling, handledTwice, evicted>>
     ELSE /\ BagCardinality(handling) < MaxConnections
          /\ \A i \in BagToSet(handling) : id - i <= MaxConnections
          /\ Len(processedUpdateIds) + Cardinality(evicted)
               < MAX_PROCESSED_IDS + ExtraUpdates
          /\ processedUpdateIds' = Evict(Add(processedUpdateIds, id))
          /\ evicted' = evicted \cup
               ((Range(processedUpdateIds) \cup {id}) \ Range(processedUpdateIds'))
          /\ handling' = handling (+) SetToBag({id})
          /\ handledTwice' = IF Issued(id) THEN handledTwice \cup {id} ELSE handledTwice
          /\ UNCHANGED reply
  /\ threw' = threw \cap {1, nextUpdateId' - 1}
  /\ UNCHANGED <<pollerVars, gateVars, quotaVars, calcVars, waitVars>>

HandlerOutcomes == {"ok", "blocked", "throw"}

\* the handler of update id returns, or throws: a bot-blocked error is
\* swallowed, any other error is re-thrown to the route
HandlerResolve(id, outcome) ==
  /\ id \in BagToSet(handling)
  /\ outcome \in HandlerOutcomes
  /\ handling' = handling (-) SetToBag({id})
  /\ reply' = [id |-> id, status |-> IF outcome = "throw" THEN "error" ELSE "ok",
               duplicate |-> FALSE]
  /\ threw' = IF outcome = "throw" /\ id \in {1, nextUpdateId - 1}
               THEN threw \cup {id} ELSE threw
  /\ UNCHANGED <<processedUpdateIds, handledTwice, evicted, nextUpdateId>>
  /\ UNCHANGED <<pollerVars, gateVars, quotaVars, calcVars, waitVars>>

NextDedup ==
  \/ \E id \in Deliverable : Webhook(id)
  \/ \E id \in BagToSet(handling) : \E outcome \in HandlerOutcomes : HandlerResolve(id, outcome)

SpecDedup == InitDedup /\ [][NextDedup]_vars

\* ------------------------------------------------------------------------
\* Quota store: usage counters of one free user in table user_quotas
\* ------------------------------------------------------------------------
RequestTypes == {"text_req_left", "image_req_left", "video_req_left"}

\* decreaseRequests and canConsumeRequest take an amount, 1 by default;
\* every handler asks for 1
Amounts == {1}

getLimits ==
  [text |-> DEFAULT_TEXT_REQUESTS,
   image |-> DEFAULT_IMAGE_REQUESTS,
   video |-> DEFAULT_VIDEO_REQUESTS]

mapRequestTypeToColumn(requestType) ==
  IF requestType = "image_req_left" THEN "image_used"
  ELSE IF requestType = "video_req_left" THEN "video_used"
  ELSE "text_used"

maxForType(requestType) ==
  IF requestType = "image_req_left" THEN getLimits.image
  ELSE IF requestType = "video_req_left" THEN getLimits.video
  ELSE getLimits.text

\* Math.max(0, n)
Max0Unfloored(n) == n

Max0(n) == IF n < 0 THEN 0 ELSE n

ZeroRow == [text_used |-> 0, image_used |-> 0, video_used |-> 0]

\* getOrCreateCurrentQuotaRow resolves with the row of the user's period
\* ("row"), with the row of the calendar week when the select of the user
\* row has failed ("week"), or with null when findUser, the select or the
\* insert of the quota row has failed
Resolutions == {"row", "week", "null"}

\* the period_start a row is looked up by.  The periods of the user start
\* on another day than Monday and are numbered 1, 2, ...; the week that
\* getCurrentWeekPeriodUTC returns starts on the Monday inside the period
\* before, and is kept under the negative of its number
PeriodStart(res) == IF res = "week" THEN 0 - week ELSE period

\* getOrCreateCurrentQuotaRow: the table after the call, which inserts a
\* zero row for the period when there is none
WithRow(t, start) == IF start \in DOMAIN t THEN t ELSE t @@ (start :> ZeroRow)

WithCurrentRow(t) == WithRow(t, period)

\* getRemainingRequests: Math.max(0, maxForType - used)
RemainingOf(limit, used) == Max0(limit - used)

\* getRemainingRequests, on the row it has fetched
Remaining(row, requestType) ==
  RemainingOf(maxForType(requestType), row[mapRequestTypeToColumn(requestType)])

\* canConsumeRequest: remaining >= amount
CanConsumeAlways(remaining, amount) == TRUE

CanConsume(remaining, amount) == remaining >= amount

\* a handler: the resource and amount of its request, its position, and
\* the row id and counter that decreaseRequests has read
Call(requestType, amount, pc, row, read) ==
  [type |-> requestType, amount |-> amount, pc |-> pc, row |-> row, read |-> read]

At(pc) == { c \in BagToSet(call) : c.pc = pc }

\* handler c goes on to position pc
Move(c, pc, row, read) ==
  call' = (call (-) SetToBag({c}))
            (+) SetToBag({Call(c.type, c.amount, pc, row, read)})

\* a handler that has returned without counting a request: it was denied,
\* its generation failed, or decreaseRequests returned null
Returned == Call("", 0, "returned", 0, 0)

ReturnUncounted(c) == call' = (call (-) SetToBag({c})) (+) SetToBag({Returned})

InitQuota ==
  /\ CalcIdle
  /\ QuotaIdle
  /\ GateIdle
  /\ DedupIdle
  /\ kind = "image"
  /\ timer = FALSE
  /\ attempts = 0
  /\ transientErrors = 0
  /\ lastStatus = ""
  /\ inflight = EmptyBag
  /\ results = <<>>
  /\ consumed = 0
  /\ started = 0
  /\ onlyInProgress = TRUE
  /\ transientSeen = FALSE
  /\ previousValue = <<"", 0>>
  /\ WaitIdle
  /\ deliveryThrew = FALSE

\* a handler starts for a request of the user and calls canConsumeRequest
QuotaRequest(requestType, amount) ==
  /\ BagCardinality(call) < MaxRequests
  /\ call' = call (+) SetToBag({Call(requestType, amount, "check", 0, 0)})
  /\ UNCHANGED <<period, week, user_quotas, resetCall, committed>>
  /\ UNCHANGED <<pollerVars, gateVars, dedupVars, calcVars, waitVars>>

\* canConsumeRequest resolves: the row of the current period is fetched
\* (ok) or the store fails; an allowed request goes on to its generation
CheckResolve(c, res) ==
  /\ c \in At("check")
  /\ IF res # "null"
     THEN /\ user_quotas' = WithRow(user_quotas, PeriodStart(res))
          /\ committed' = WithRow(committed, PeriodStart(res))
          /\ IF CanConsume(Remaining(user_quotas'[PeriodStart(res)], c.type), c.amount)
             THEN Move(c, "generate", 0, 0)
             ELSE ReturnUncounted(c)
     ELSE ReturnUncounted(c) /\ UNCHANGED <<user_quotas, committed>>
  /\ UNCHANGED <<period, week, resetCall>>
  /\ UNCHANGED <<pollerVars, gateVars, dedupVars, calcVars, waitVars>>

\* the generation resolves; on success the handler calls decreaseRequests
GenerateResolve(c, ok) ==
  /\ c \in At("generate")
  /\ IF ok THEN Move(c, "consume", 0, 0) ELSE ReturnUncounted(c)
  /\ UNCHANGED <<period, week, user_quotas, resetCall, committed>>
  /\ UNCHANGED <<pollerVars, gateVars, dedupVars, calcVars, waitVars>>

\* decreaseRequests: getOrCreateCurrentQuotaRow resolves; the handler keeps
\* the row's id and the counter it has read
ConsumeRead(c, res) ==
  /\ c \in At("consume")
  /\ IF res # "null"
     THEN /\ user_quotas' = WithRow(user_quotas, PeriodStart(res))
          /\ committed' = WithRow(committed, PeriodStart(res))
          /\ Move(c, "update", PeriodStart(res),
                  user_quotas'[PeriodStart(res)][mapRequestTypeToColumn(c.type)])
     ELSE ReturnUncounted(c) /\ UNCHANGED <<user_quotas, committed>>
  /\ UNCHANGED <<period, week, resetCall>>
  /\ UNCHANGED <<pollerVars, gateVars, dedupVars, calcVars, waitVars>>

\* decreaseRequests: the update of the row resolves; it writes the counter
\* that was read plus the amount
ConsumeWrite(c, ok) ==
  /\ c \in At("update")
  /\ IF ok
     THEN LET column == mapRequestTypeToColumn(c.type)
              newUsed == Max0(c.read + c.amount)
          IN /\ user_quotas' = [user_quotas EXCEPT ![c.row][column] = newUsed]
             /\ committed' = [committed EXCEPT ![c.row][column] = @ + c.amount]
             /\ Move(c, "consumed", c.row, 0)
     ELSE ReturnUncounted(c) /\ UNCHANGED <<user_quotas, committed>>
  /\ UNCHANGED <<period, week, resetCall>>
  /\ UNCHANGED <<pollerVars, gateVars, dedupVars, calcVars, waitVars>>

\* resetUserRequests: getOrCreateCurrentQuotaRow resolves
ResetRead(res) ==
  /\ resetCall.pc = "new"
  /\ IF res # "null"
     THEN /\ user_quotas' = WithRow(user_quotas, PeriodStart(res))
          /\ committed' = WithRow(committed, PeriodStart(res))
          /\ resetCall' = [pc |-> "update", row |-> PeriodStart(res)]
     ELSE /\ resetCall' = [pc |-> "failed", row |-> 0]
          /\ UNCHANGED <<user_quotas, committed>>
  /\ UNCHANGED <<period, week, call>>
  /\ UNCHANGED <<pollerVars, gateVars, dedupVars, calcVars, waitVars>>

\* resetUserRequests: the update that zeroes the three counters resolves
ResetWrite(ok) ==
  /\ resetCall.pc = "update"
  /\ IF ok
     THEN /\ user_quotas' = [user_quotas EXCEPT ![resetCall.row] = ZeroRow]
          /\ committed' = [committed EXCEPT ![resetCall.row] = ZeroRow]
          /\ resetCall' = [pc |-> "done", row |-> 0]
     ELSE /\ resetCall' = [pc |-> "failed", row |-> 0]
          /\ UNCHANGED <<user_quotas, committed>>
  /\ UNCHANGED <<period, week, call>>
  /\ UNCHANGED <<pollerVars, gateVars, dedupVars, calcVars, waitVars>>

\* the clock passes the Monday inside the current period
WeekBoundary ==
  /\ week = period
  /\ week' = week + 1
  /\ UNCHANGED <<period, user_quotas, call, resetCall, committed>>
  /\ UNCHANGED <<pollerVars, gateVars, dedupVars, calcVars, waitVars>>

\* the clock passes the end of the current period
PeriodBoundary ==
  /\ week = period + 1
  /\ period < MaxPeriods
  /\ period' = period + 1
  /\ UNCHANGED <<week, user_quotas, call, resetCall, committed>>
  /\ UNCHANGED <<pollerVars, gateVars, dedupVars, calcVars, waitVars>>

NextQuota ==
  \/ \E requestType \in RequestTypes : \E amount \in Amounts : QuotaRequest(requestType, amount)
  \/ \E c \in BagToSet(call) : \E res \in Resolutions : CheckResolve(c, res)
  \/ \E c \in BagToSet(call) : \E ok \in BOOLEAN : GenerateResolve(c, ok)
  \/ \E c \in BagToSet(call) : \E res \in Resolutions : ConsumeRead(c, res)
  \/ \E c \in BagToSet(call) : \E ok \in BOOLEAN : ConsumeWrite(c, ok)
  \/ \E res \in Resolutions : ResetRead(res)
  \/ \E ok \in BOOLEAN : ResetWrite(ok)
  \/ WeekBoundary
  \/ PeriodBoundary

SpecQuota == InitQuota /\ [][NextQuota]_vars

\* ------------------------------------------------------------------------
\* The quota row await by await: getOrCreateCurrentQuotaRow under
\* getRemainingRequests and canConsumeRequest, for calls that overlap
\* ------------------------------------------------------------------------
\* a call of canConsumeRequest: its resource and amount, its position, the
\* period_start it computed, the error of its last store access, and the
\* remaining count and the answer it returns
RowCall(requestType, amount, pc, start, error, remaining, canConsume) ==
  [type |-> requestType, amount |-> amount, pc |-> pc, start |-> start,
   error |-> error, remaining |-> remaining, canConsume |-> canConsume]

\* call c goes on to position pc with the error of the access just made
RowMove(c, pc, error) ==
  call' = (call (-) SetToBag({c}))
            (+) SetToBag({RowCall(c.type, c.amount, pc, c.start, error, 0, FALSE)})

\* getOrCreateCurrentQuotaRow returns null: getRemainingRequests returns
\* null and canConsumeRequest false
ReturnNull(c, error) == RowMove(c, "null", error)

\* getOrCreateCurrentQuotaRow returns row: getRemainingRequests returns the
\* remaining count and canConsumeRequest compares it with the amount
ReturnRow(c, row) ==
  call' = (call (-) SetToBag({c}))
            (+) SetToBag({RowCall(c.type, c.amount, "got", c.start, "",
                                  Remaining(row, c.type),
                                  CanConsume(Remaining(row, c.type), c.amount))})

InitQuotaRow ==
  /\ CalcIdle
  /\ QuotaIdle
  /\ GateIdle
  /\ DedupIdle
  /\ kind = "image"
  /\ timer = FALSE
  /\ attempts = 0
  /\ transientErrors = 0
  /\ lastStatus = ""
  /\ inflight = EmptyBag
  /\ results = <<>>
  /\ consumed = 0
  /\ started = 0
  /\ onlyInProgress = TRUE
  /\ transientSeen = FALSE
  /\ previousValue = <<"", 0>>
  /\ WaitIdle
  /\ deliveryThrew = FALSE

\* canConsumeRequest is called: findUser and the select of the user row
\* resolve, and the period is computed from the row or, when that select
\* failed, from the calendar week; without a user the call returns null
RowRequest(requestType, amount, res) ==
  /\ BagCardinality(call) < MaxRequests
  /\ call' = call (+) SetToBag({
       IF res = "null"
         THEN RowCall(requestType, amount, "null", 0, "failed", 0, FALSE)
         ELSE RowCall(requestType, amount, "select", PeriodStart(res), "", 0, FALSE)})
  /\ UNCHANGED <<period, week, user_quotas, resetCall, committed>>
  /\ UNCHANGED <<pollerVars, gateVars, dedupVars, calcVars, waitVars>>

\* the select of the row of (user, period_start) resolves: an error
\* returns null, a row is returned, no row leads to the insert
SelectResolve(c, ok) ==
  /\ c \in At("select")
  /\ IF ~ok
       THEN ReturnNull(c, "failed")
       ELSE IF c.start \in DOMAIN user_quotas
              THEN ReturnRow(c, user_quotas[c.start])
              ELSE RowMove(c, "insert", "")
  /\ UNCHANGED <<period, week, user_quotas, resetCall, committed>>
  /\ UNCHANGED <<pollerVars, gateVars, dedupVars, calcVars, waitVars>>

\* the insert of the zero row resolves: the store fails, or the unique
\* index on (user_id, period_start) rejects a second row of the period,
\* or the row is stored and returned
InsertResolve(c, ok) ==
  /\ c \in At("insert")
  /\ IF ~ok
       THEN ReturnNull(c, "failed") /\ UNCHANGED user_quotas
       ELSE IF c.start \in DOMAIN user_quotas
              THEN ReturnNull(c, "unique_violation") /\ UNCHANGED user_quotas
              ELSE /\ user_quotas' = WithRow(user_quotas, c.start)
                   /\ ReturnRow(c, ZeroRow)
  /\ UNCHANGED <<period, week, resetCall, committed>>
  /\ UNCHANGED <<pollerVars, gateVars, dedupVars, calcVars, waitVars>>

NextQuotaRow ==
  \/ \E requestType \in RequestTypes : \E amount \in Amounts : \E res \in Resolutions :
       RowRequest(requestType, amount, res)
  \/ \E c \in BagToSet(call) : \E ok \in BOOLEAN : SelectResolve(c, ok)
  \/ \E c \in BagToSet(call) : \E ok \in BOOLEAN : InsertResolve(c, ok)
  \/ WeekBoundary
  \/ PeriodBoundary

SpecQuotaRow == InitQuotaRow /\ [][NextQuotaRow]_vars

\* ------------------------------------------------------------------------
\* Remaining requests: getRemainingRequests and canConsumeRequest on the row
\* and the limits they are given
\* ------------------------------------------------------------------------
\* the limits of the code when the environment sets none, free and premium
DefaultLimits == [text |-> 100, image |-> 10, video |-> 5]

PremiumLimits == [text |-> 1000, image |-> 100, video |-> 50]

LimitConfigs == {getLimits, DefaultLimits, PremiumLimits}

\* the counters a row is drawn with, and the amounts asked for
UsedValues == {0, 1, 2, 3, 97, 100, 101}

AskedAmounts == {1, 5, 10}

\* limits.image, limits.video or limits.text
limitFor(limits, requestType) ==
  IF requestType = "image_req_left" THEN limits.image
  ELSE IF requestType = "video_req_left" THEN limits.video
  ELSE limits.text

InitRemaining ==
  /\ quotaRow \in [text_used : UsedValues, image_used : {0, 1, 10}, video_used : {0, 5}]
  /\ asked \in [limits : LimitConfigs, type : RequestTypes, amount : AskedAmounts]
  /\ answer = [pc |-> "new", remaining |-> 0, canConsume |-> FALSE]
  /\ PeriodIdle
  /\ UserIdle
  /\ GateIdle
  /\ DedupIdle
  /\ QuotaIdle
  /\ kind = "image"
  /\ timer = FALSE
  /\ attempts = 0
  /\ transientErrors = 0
  /\ lastStatus = ""
  /\ inflight = EmptyBag
  /\ results = <<>>
  /\ consumed = 0
  /\ started = 0
  /\ onlyInProgress = TRUE
  /\ transientSeen = FALSE
  /\ previousValue = <<"", 0>>
  /\ WaitIdle
  /\ deliveryThrew = FALSE

\* canConsumeRequest awaits getRemainingRequests, which resolves with the
\* remaining count of the row
GetRemainingResolve ==
  /\ answer.pc = "new"
  /\ answer' = [answer EXCEPT
                  !.pc = "remaining",
                  !.remaining = RemainingOf(limitFor(asked.limits, asked.type),
                                            quotaRow[mapRequestTypeToColumn(asked.type)])]
  /\ UNCHANGED <<now, userRow, anchored, previous, quotaRow, asked, userCall>>
  /\ UNCHANGED <<pollerVars, gateVars, dedupVars, quotaVars, waitVars>>

\* canConsumeRequest returns remaining >= amount
CanConsumeReturn ==
  /\ answer.pc = "remaining"
  /\ answer' = [answer EXCEPT
                  !.pc = "done",
                  !.canConsume = CanConsume(answer.remaining, asked.amount)]
  /\ UNCHANGED <<now, userRow, anchored, previous, quotaRow, asked, userCall>>
  /\ UNCHANGED <<pollerVars, gateVars, dedupVars, quotaVars, waitVars>>

NextRemaining ==
  \/ GetRemainingResolve
  \/ CanConsumeReturn

SpecRemaining == InitRemaining /\ [][NextRemaining]_vars

\* ------------------------------------------------------------------------
\* The quota check of the generation handlers and the message of a decline
\* ------------------------------------------------------------------------
\* goapi:    handlePhotoGeneration (flows/image.ts)
\* fal:      handleFalPhotoGeneration (flows/image-fal.ts)
\* photo:    handlePhotoGeneration (handlers/flows/image.ts)
\* video:    handleVideoGeneration (handlers/flows/video.ts)
\* falvideo: handleFalVideoGeneration (handlers/flows/callbacks.ts)
\* upscale:  handleCallbackQuery, upscale button (flows/callbacks.ts)
CheckedFlows == {"goapi", "fal", "photo", "video", "falvideo", "upscale"}

\* the resource a flow asks for
ResourceOf(f) ==
  IF f \in {"video", "falvideo"} THEN "video_req_left" ELSE "image_req_left"

\* limits of an environment that sets every limit of free users to 0
ZeroLimits == [text |-> 0, image |-> 0, video |-> 0]

\* the columns text_req_left, image_req_left and video_req_left of the user
\* row, as createUser writes them
CachedCounts == [text |-> 100, image |-> 10, video |-> 5]

\* hasRequestsLeft(user, requestType): the limit alone is compared
hasRequestsLeft(user, limits, requestType) ==
  user /\ limitFor(limits, requestType) > 0

\* getUserStats: the remaining counts of the three resources, or null
getUserStats(limits, row) ==
  [text |-> Max0(limits.text - row.text_used),
   image |-> Max0(limits.image - row.image_used),
   video |-> Max0(limits.video - row.video_used)]

\* stats?.x ?? 0 for the three counts
OrZero(ok, stats) == IF ok THEN stats ELSE ZeroLimits

\* the counts a message shows, as pairs of resource and number
AllCounts(c) == {<<"text", c.text>>, <<"image", c.image>>, <<"video", c.video>>}

\* the outcome of a quota check: admitted or declined, the remaining count
\* of the resource in the record at the time of the check, whether the
\* check read that record, and the counts the decline message shows
Outcome(outcome, remaining, known, message) ==
  [kind |-> outcome, remaining |-> remaining, known |-> known, message |-> message]

NoOutcome == Outcome("", 0, FALSE, {})

RemainingNow(f) ==
  RemainingOf(limitFor(asked.limits, ResourceOf(f)),
              quotaRow[mapRequestTypeToColumn(ResourceOf(f))])

InitChecks ==
  /\ quotaRow \in [text_used : {0, 2, 100}, image_used : {0, 1, 10}, video_used : {0, 1, 5}]
  /\ asked \in [limits : {getLimits, DefaultLimits, ZeroLimits}, type : {""}, amount : {0}]
  /\ answer = [pc |-> "new", remaining |-> 0, canConsume |-> FALSE]
  /\ PeriodIdle
  /\ UserIdle
  /\ ongoingTasks = {}
  /\ req = [r \in 1..MaxRequests |-> [user |-> "", flow |-> "", pc |-> "new", out |-> NoOutcome]]
  /\ polling = {}
  /\ DedupIdle
  /\ QuotaIdle
  /\ kind = "image"
  /\ timer = FALSE
  /\ attempts = 0
  /\ transientErrors = 0
  /\ lastStatus = ""
  /\ inflight = EmptyBag
  /\ results = <<>>
  /\ consumed = 0
  /\ started = 0
  /\ onlyInProgress = TRUE
  /\ transientSeen = FALSE
  /\ previousValue = <<"", 0>>
  /\ WaitIdle
  /\ deliveryThrew = FALSE

\* a request arrives for flow f; the handler runs up to its quota check
CheckReceive(r, u, f) ==
  /\ req[r].pc = "new"
  /\ req' = [req EXCEPT ![r] = [user |-> u, flow |-> f, pc |-> "check", out |-> NoOutcome]]
  /\ UNCHANGED <<ongoingTasks, polling>>
  /\ UNCHANGED <<pollerVars, dedupVars, quotaVars, calcVars, waitVars>>

\* video and photo: findUser resolves (found) and hasRequestsLeft decides;
\* a decline sends its message and returns
LeftResolve(r, found) ==
  /\ req[r].pc = "check"
  /\ req[r].flow \in {"video", "photo"}
  /\ LET f == req[r].flow
     IN IF hasRequestsLeft(found, asked.limits, ResourceOf(f))
        THEN req' = [req EXCEPT ![r].pc = "admitted",
                                ![r].out = Outcome("admitted", RemainingNow(f), FALSE, {})]
        ELSE req' = [req EXCEPT ![r].pc = "done",
                                ![r].out = Outcome("declined", RemainingNow(f), FALSE,
                                                   IF f = "photo" THEN AllCounts(CachedCounts) ELSE {})]
  /\ UNCHANGED <<ongoingTasks, polling>>
  /\ UNCHANGED <<pollerVars, dedupVars, quotaVars, calcVars, waitVars>>

\* the other flows: canConsumeRequest resolves, false when the store gave
\* no record; falvideo declines with its message at once, the image flows
\* go on to getUserStats
CanConsumeResolve(r, ok) ==
  /\ req[r].pc = "check"
  /\ req[r].flow \notin {"video", "photo"}
  /\ LET f == req[r].flow
     IN IF ok /\ CanConsume(RemainingNow(f), 1)
        THEN req' = [req EXCEPT ![r].pc = "admitted",
                                ![r].out = Outcome("admitted", RemainingNow(f), TRUE, {})]
        ELSE req' = [req EXCEPT ![r].pc = IF f = "falvideo" THEN "done" ELSE "stats",
                                ![r].out = Outcome("declined", RemainingNow(f), ok, {})]
  /\ UNCHANGED <<ongoingTasks, polling>>
  /\ UNCHANGED <<pollerVars, dedupVars, quotaVars, calcVars, waitVars>>

\* getUserStats resolves with the counts or null and the message is sent:
\* three counts in the image flows, the image count in the upscale flow
StatsResolve(r, ok) ==
  /\ req[r].pc = "stats"
  /\ LET stats == OrZero(ok, getUserStats(asked.limits, quotaRow))
     IN req' = [req EXCEPT ![r].pc = "done",
                           ![r].out.message =
                              IF req[r].flow = "upscale"
                                THEN {<<"image", stats.image>>}
                                ELSE AllCounts(stats)]
  /\ UNCHANGED <<ongoingTasks, polling>>
  /\ UNCHANGED <<pollerVars, dedupVars, quotaVars, calcVars, waitVars>>

NextChecks ==
  \/ \E r \in Reqs : \E u \in Users : \E f \in CheckedFlows : CheckReceive(r, u, f)
  \/ \E r \in Reqs : \E found \in BOOLEAN : LeftResolve(r, found)
  \/ \E r \in Reqs : \E ok \in BOOLEAN : CanConsumeResolve(r, ok)
  \/ \E r \in Reqs : \E ok \in BOOLEAN : StatsResolve(r, ok)

SpecChecks == InitChecks /\ [][NextChecks]_vars

\* ------------------------------------------------------------------------
\* Period calculator: the billing period of a user, in UTC calendar dates
\* ------------------------------------------------------------------------
\* the Date arithmetic of the runtime, on days since 1970-01-01
isLeapYear(year) == (year % 4 = 0 /\ year % 100 # 0) \/ year % 400 = 0

\* days of month 0..11 of a year
DaysInMonth(year, month) ==
  IF month = 1 THEN (IF isLeapYear(year) THEN 29 ELSE 28)
  ELSE IF month \in {3, 5, 8, 10} THEN 30
  ELSE 31

\* the day number of January 1st of a year
DayFromYear(year) ==
  365 * (year - 1970) + (year - 1969) \div 4 - (year - 1901) \div 100
    + (year - 1601) \div 400

\* the days of a year before its month 0..11
RECURSIVE DaysBeforeMonth(_, _)
DaysBeforeMonth(year, month) ==
  IF month = 0 THEN 0
  ELSE DaysBeforeMonth(year, month - 1) + DaysInMonth(year, month - 1)

\* Date.UTC(year, month, date): a month outside 0..11 carries into the
\* year, a date outside the month carries into the neighbouring months
MakeDay(year, month, date) ==
  LET ym == year + month \div 12
      mn == month % 12
  IN DayFromYear(ym) + DaysBeforeMonth(ym, mn) + date - 1

DateUTC(year, month, date) == Date(MakeDay(year, month, date), 0)

getUTCFullYear(d) ==
  CHOOSE year \in (1970 + d.day \div 366)..(1970 + d.day \div 365) :
    DayFromYear(year) <= d.day /\ d.day < DayFromYear(year + 1)

getUTCMonth(d) ==
  LET year == getUTCFullYear(d)
      dayInYear == d.day - DayFromYear(year)
  IN CHOOSE month \in 0..11 :
       /\ DaysBeforeMonth(year, month) <= dayInYear
       /\ dayInYear < DaysBeforeMonth(year, month) + DaysInMonth(year, month)

getUTCDate(d) ==
  d.day - DayFromYear(getUTCFullYear(d))
    - DaysBeforeMonth(getUTCFullYear(d), getUTCMonth(d)) + 1

\* 0 = Sunday; 1970-01-01 was a Thursday
getUTCDay(d) == (d.day + 4) % 7

\* setUTCDate and setUTCMonth keep the time of the day
setUTCDate(d, date) ==
  Date(MakeDay(getUTCFullYear(d), getUTCMonth(d), date), d.ms)

setUTCMonth(d, month) ==
  Date(MakeDay(getUTCFullYear(d), month, getUTCDate(d)), d.ms)

\* new Date(source) of an ISO string
NewDate(source) ==
  Date(MakeDay(source.year, source.month - 1, source.date), source.ms)

\* a <= b and a > b on Dates compare their time values
NotAfterStrict(a, b) == a.day < b.day \/ (a.day = b.day /\ a.ms < b.ms)

NotAfter(a, b) == a.day < b.day \/ (a.day = b.day /\ a.ms <= b.ms)

After(a, b) == ~NotAfter(a, b)

\* 'YYYY-MM-DD', as its three numbers
formatDateUTC(d) == <<getUTCFullYear(d), getUTCMonth(d) + 1, getUTCDate(d)>>

addDaysUTC(d, days) ==
  LET c == DateUTC(getUTCFullYear(d), getUTCMonth(d), getUTCDate(d))
  IN setUTCDate(c, getUTCDate(c) + days)

addMonthsUTC(d, months) ==
  LET c == DateUTC(getUTCFullYear(d), getUTCMonth(d), getUTCDate(d))
  IN setUTCMonth(c, getUTCMonth(c) + months)

\* ISO week of the clock: its Monday and the Sunday after
getCurrentWeekPeriodUTC(clock) ==
  LET day == getUTCDay(clock)
      diffToMonday == IF day = 0 THEN 0 - 6 ELSE 1 - day
      today == DateUTC(getUTCFullYear(clock), getUTCMonth(clock), getUTCDate(clock))
      startDate == setUTCDate(today, getUTCDate(today) + diffToMonday)
      endDate == setUTCDate(startDate, getUTCDate(startDate) + 6)
  IN [start |-> formatDateUTC(startDate), end |-> formatDateUTC(endDate)]

\* a ?? b ?? clock, then new Date(...)
AnchorOf(a, b, clock) ==
  IF a # Null THEN NewDate(a)
  ELSE IF b # Null THEN NewDate(b)
  ELSE clock

\* while (addDaysUTC(periodStart, 7) <= now) periodStart = addDaysUTC(periodStart, 7)
RECURSIVE AdvanceWeeks(_, _)
AdvanceWeeks(periodStart, clock) ==
  IF NotAfter(addDaysUTC(periodStart, 7), clock)
  THEN AdvanceWeeks(addDaysUTC(periodStart, 7), clock)
  ELSE periodStart

getAnchoredPeriodForUser(user, clock) ==
  IF user.is_premium
  THEN LET anchor == AnchorOf(user.premium_started_at, user.created_at, clock)
           thisMonth == DateUTC(getUTCFullYear(clock), getUTCMonth(clock),
                                getUTCDate(anchor))
           periodStart ==
             IF After(thisMonth, clock)
             THEN DateUTC(getUTCFullYear(clock), getUTCMonth(clock) - 1,
                          getUTCDate(anchor))
             ELSE thisMonth
           nextMonth == addMonthsUTC(periodStart, 1)
           end == setUTCDate(nextMonth, getUTCDate(nextMonth) - 1)
       IN [start |-> formatDateUTC(periodStart), end |-> formatDateUTC(end)]
  ELSE LET anchor == AnchorOf(user.free_period_start, user.created_at, clock)
           periodStart ==
             AdvanceWeeks(DateUTC(getUTCFullYear(anchor), getUTCMonth(anchor),
                                  getUTCDate(anchor)), clock)
           end == addDaysUTC(periodStart, 6)
       IN [start |-> formatDateUTC(periodStart), end |-> formatDateUTC(end)]

\* the anchors a user row is drawn with: the sign-up date and the activation
\* instant of the two scenarios, days 29 to 31 of a month, and a date the
\* clock reaches only later
Anchors ==
  {Iso(2024, 1, 3, 0), Iso(2024, 1, 31, 36000000), Iso(2024, 1, 15, 0),
   Iso(2024, 1, 29, 0), Iso(2024, 1, 30, 0), Iso(2024, 2, 20, 0)}

Created == {Iso(2024, 1, 1, 28800000), Null}

UserRows ==
  { [is_premium |-> p,
     premium_started_at |-> IF p THEN a ELSE Null,
     free_period_start |-> IF p THEN Null ELSE a,
     created_at |-> c] : p \in BOOLEAN, a \in Anchors \cup {Null}, c \in Created }

\* the clock starts at 2024-01-01T00:00:00Z and is read every twelve hours
ClockStart == DateUTC(2024, 0, 1)

HalfDay == 43200000

InitPeriod ==
  /\ now = ClockStart
  /\ userRow \in UserRows
  /\ anchored = NoPeriod
  /\ previous = NoPeriod
  /\ RemainingIdle
  /\ UserIdle
  /\ GateIdle
  /\ DedupIdle
  /\ QuotaIdle
  /\ kind = "image"
  /\ timer = FALSE
  /\ attempts = 0
  /\ transientErrors = 0
  /\ lastStatus = ""
  /\ inflight = EmptyBag
  /\ results = <<>>
  /\ consumed = 0
  /\ started = 0
  /\ onlyInProgress = TRUE
  /\ transientSeen = FALSE
  /\ previousValue = <<"", 0>>
  /\ WaitIdle
  /\ deliveryThrew = FALSE

\* the period of the user is computed at the instant of the clock
GetAnchoredPeriod ==
  /\ anchored.at # now
  /\ previous' = anchored
  /\ anchored' = getAnchoredPeriodForUser(userRow, now) @@ [at |-> now]
  /\ UNCHANGED <<now, userRow, quotaRow, asked, answer, userCall>>
  /\ UNCHANGED <<pollerVars, gateVars, dedupVars, quotaVars, waitVars>>

\* twelve hours pass
ClockAdvance ==
  /\ anchored.at = now
  /\ now.day < ClockStart.day + MaxDays
  /\ now' = IF now.ms + HalfDay < 2 * HalfDay
            THEN Date(now.day, now.ms + HalfDay)
            ELSE Date(now.day + 1, now.ms + HalfDay - 2 * HalfDay)
  /\ UNCHANGED <<userRow, anchored, previous, quotaRow, asked, answer, userCall>>
  /\ UNCHANGED <<pollerVars, gateVars, dedupVars, quotaVars, waitVars>>

NextPeriod ==
  \/ GetAnchoredPeriod
  \/ ClockAdvance

SpecPeriod == InitPeriod /\ [][NextPeriod]_vars

\* ------------------------------------------------------------------------
\* The user row: setPremium and resetUserRequests
\* ------------------------------------------------------------------------
\* new Date().toISOString()
toISOString(d) == Iso(getUTCFullYear(d), getUTCMonth(d) + 1, getUTCDate(d), d.ms)

\* the instants the operations run at
UserClocks == {DateUTC(2024, 1, 10), Date(MakeDay(2024, 1, 29), HalfDay), DateUTC(2024, 2, 6)}

\* the usage the current record holds when resetUserRequests is called
UsedRows == {ZeroRow, [text_used |-> 2, image_used |-> 1, video_used |-> 1]}

\* rows as createUser and setPremium leave them: free users, and premium
\* users with the instant of their activation
InitUser ==
  /\ now \in UserClocks
  /\ userRow \in { u \in UserRows : u.is_premium => u.premium_started_at # Null }
  /\ quotaRow \in UsedRows
  /\ anchored = NoPeriod
  /\ previous = NoPeriod
  /\ asked = [limits |-> [text |-> 0, image |-> 0, video |-> 0],
              type |-> "", amount |-> 0]
  /\ answer = [pc |-> "new", remaining |-> 0, canConsume |-> FALSE]
  /\ UserIdle
  /\ GateIdle
  /\ DedupIdle
  /\ QuotaIdle
  /\ kind = "image"
  /\ timer = FALSE
  /\ attempts = 0
  /\ transientErrors = 0
  /\ lastStatus = ""
  /\ inflight = EmptyBag
  /\ results = <<>>
  /\ consumed = 0
  /\ started = 0
  /\ onlyInProgress = TRUE
  /\ transientSeen = FALSE
  /\ previousValue = <<"", 0>>
  /\ WaitIdle
  /\ deliveryThrew = FALSE

\* setPremium: updateUser stores the flag and the instant of the activation
SetPremium(ok) ==
  /\ userRow' = IF ok
                  THEN [userRow EXCEPT !.is_premium = TRUE,
                                       !.premium_started_at = toISOString(now)]
                  ELSE userRow
  /\ UNCHANGED <<now, anchored, previous, quotaRow, asked, answer, userCall>>
  /\ UNCHANGED <<pollerVars, gateVars, dedupVars, quotaVars, waitVars>>

\* resetUserRequests is called: findUser and getOrCreateCurrentQuotaRow
\* resolve, with the user and the record of the current period or null
ResetFind(isPremium, ok) ==
  /\ userCall.pc \in {"idle", "done", "failed"}
  /\ userCall' = IF ok
                   THEN [pc |-> "update", isPremium |-> isPremium,
                         is_premium |-> userRow.is_premium]
                   ELSE [pc |-> "failed", isPremium |-> isPremium,
                         is_premium |-> FALSE]
  /\ UNCHANGED <<now, userRow, anchored, previous, quotaRow, asked, answer>>
  /\ UNCHANGED <<pollerVars, gateVars, dedupVars, quotaVars, waitVars>>

\* the update that zeroes the three counters resolves
ResetUpdate(ok) ==
  /\ userCall.pc = "update"
  /\ quotaRow' = IF ok THEN ZeroRow ELSE quotaRow
  /\ userCall' = [userCall EXCEPT !.pc =
                    IF ~ok THEN "failed"
                    ELSE IF userCall.isPremium /\ ~userCall.is_premium
                           THEN "sync" ELSE "done"]
  /\ UNCHANGED <<now, userRow, anchored, previous, asked, answer>>
  /\ UNCHANGED <<pollerVars, gateVars, dedupVars, quotaVars, waitVars>>

\* the premium flag is synchronised: updateUser resolves, its result is
\* not looked at, and resetUserRequests returns true
ResetSync(ok) ==
  /\ userCall.pc = "sync"
  /\ userRow' = IF ok THEN [userRow EXCEPT !.is_premium = TRUE] ELSE userRow
  /\ userCall' = [userCall EXCEPT !.pc = "done"]
  /\ UNCHANGED <<now, anchored, previous, quotaRow, asked, answer>>
  /\ UNCHANGED <<pollerVars, gateVars, dedupVars, quotaVars, waitVars>>

NextUser ==
  \/ \E ok \in BOOLEAN : SetPremium(ok)
  \/ \E isPremium \in BOOLEAN : \E ok \in BOOLEAN : ResetFind(isPremium, ok)
  \/ \E ok \in BOOLEAN : ResetUpdate(ok)
  \/ \E ok \in BOOLEAN : ResetSync(ok)

SpecUser == InitUser /\ [][NextUser]_vars

\* ------------------------------------------------------------------------
\* Waiting for a fal.ai task: waitForFalTaskCompletion (images) and
\* waitForFalVideoTaskCompletion (videos)
\* ------------------------------------------------------------------------
\* the statuses fal.queue.status reports for a request
FalQueueStatuses == {"IN_QUEUE", "IN_PROGRESS", "COMPLETED"}

\* the statuses a request in the queue may move to
LaterStatuses(s) ==
  CASE s = "IN_QUEUE" -> {"IN_PROGRESS", "COMPLETED"}
    [] s = "IN_PROGRESS" -> {"COMPLETED"}
    [] OTHER -> {}

\* the status values the loop of each function compares with
CompletedValues(fn) ==
  IF fn = "video" THEN {"COMPLETED", "completed"} ELSE {"completed"}

FailedValues(fn) ==
  IF fn = "video" THEN {"FAILED", "failed"} ELSE {"failed"}

\* what getFalTaskResult / getFalVideoTaskResult resolve with: the data of
\* the task, a response without the url or the images, an error
ResultOutcomes == {"result", "noData", "resultError"}

Latencies == {0, RequestLatency}

WaitReturn(w, outcome) == [w EXCEPT !.pc = "returned", !.outcome = outcome]

\* while (Date.now() - startTime < maxWaitTime)
WhileElapsed(w) ==
  IF w.elapsed < w.maxWaitTime
  THEN [w EXCEPT !.pc = "status"]
  ELSE WaitReturn(w, "timeout")

\* the call: startTime = Date.now(), first test of the loop
WaitCall(fn, maxWaitTime, pollInterval) ==
  WhileElapsed([fn |-> fn, maxWaitTime |-> maxWaitTime,
                pollInterval |-> pollInterval, pc |-> "idle", elapsed |-> 0,
                outcome |-> "", reported |-> {}])

\* the status check resolves after latency ms
AfterStatus(w, ok, status, latency) ==
  LET v == [w EXCEPT !.elapsed = @ + latency,
                     !.reported = IF ok THEN @ \cup {status} ELSE @]
  IN IF ~ok
     THEN WaitReturn(v, "statusError")
     ELSE IF status \in CompletedValues(w.fn)
          THEN [v EXCEPT !.pc = "result"]
          ELSE IF status \in FailedValues(w.fn)
               THEN WaitReturn(v, "failed")
               ELSE [v EXCEPT !.pc = "sleep"]

\* setTimeout(resolve, pollInterval) fires, next test of the loop
AfterSleep(w) == WhileElapsed([w EXCEPT !.elapsed = @ + w.pollInterval])

InitWait ==
  /\ task \in FalQueueStatuses
  /\ wait \in {WaitCall("image", FalImageMaxWaitTime, FalImagePollInterval),
               WaitCall("video", FalVideoPollInterval, FalVideoPollInterval)}
  /\ GateIdle /\ DedupIdle /\ QuotaIdle /\ CalcIdle
  /\ kind = "image"
  /\ timer = FALSE
  /\ attempts = 0
  /\ transientErrors = 0
  /\ lastStatus = ""
  /\ inflight = EmptyBag
  /\ results = <<>>
  /\ consumed = 0
  /\ started = 0
  /\ onlyInProgress = TRUE
  /\ transientSeen = FALSE
  /\ previousValue = <<"", 0>>
  /\ deliveryThrew = FALSE

\* fal.ai moves the request on in its queue
TaskAdvance(s) ==
  /\ s \in LaterStatuses(task)
  /\ task' = s
  /\ UNCHANGED <<wait, pollerVars, gateVars, dedupVars, quotaVars, calcVars>>

\* getFalTaskStatus / getFalVideoTaskStatus resolves
WaitStatusResolve(ok, latency) ==
  /\ wait.pc = "status"
  /\ wait' = AfterStatus(wait, ok, task, latency)
  /\ UNCHANGED <<task, pollerVars, gateVars, dedupVars, quotaVars, calcVars>>

WaitSleepResolve ==
  /\ wait.pc = "sleep"
  /\ wait' = AfterSleep(wait)
  /\ UNCHANGED <<task, pollerVars, gateVars, dedupVars, quotaVars, calcVars>>

\* getFalTaskResult / getFalVideoTaskResult resolves
WaitResultResolve(outcome) ==
  /\ wait.pc = "result"
  /\ wait' = WaitReturn(wait, outcome)
  /\ UNCHANGED <<task, pollerVars, gateVars, dedupVars, quotaVars, calcVars>>

NextWait ==
  \/ \E s \in FalQueueStatuses : TaskAdvance(s)
  \/ \E ok \in BOOLEAN : \E latency \in Latencies : WaitStatusResolve(ok, latency)
  \/ WaitSleepResolve
  \/ \E outcome \in ResultOutcomes : WaitResultResolve(outcome)

SpecWait == InitWait /\ [][NextWait]_vars

\* C39: waitForFalTaskCompletion returns the result of the task as soon as
\* a status check reports COMPLETED, and returns the timeout error only
\* when no status check reported the task completed or failed.
C39_CompletedReturnsResult ==
  wait.fn = "image" =>
    /\ "COMPLETED" \in wait.reported =>
         \/ wait.pc = "result"
         \/ wait.pc = "returned" /\ wait.outcome \in ResultOutcomes
    /\ wait.outcome = "timeout" =>
         wait.reported \cap {"COMPLETED", "completed", "FAILED", "failed"} = {}

\* ------------------------------------------------------------------------
\* The poll callback of handleFalVideoGeneration: every tick calls
\* waitForFalVideoTaskCompletion(requestId, pollInterval, pollInterval)
\* ------------------------------------------------------------------------
InitFalVideo ==
  /\ task \in FalQueueStatuses
  /\ wait = NoWait
  /\ GateIdle /\ DedupIdle /\ QuotaIdle /\ CalcIdle
  /\ kind = "falvideo"
  /\ timer = TRUE
  /\ attempts = 0
  /\ transientErrors = 0
  /\ lastStatus = ""
  /\ inflight = EmptyBag
  /\ results = <<>>
  /\ consumed = 0
  /\ started = 0
  /\ onlyInProgress = TRUE
  /\ transientSeen = FALSE
  /\ previousValue = <<"", 0>>
  /\ deliveryThrew = FALSE

\* the if / else-if chain on the result of the wait
FalVideoBranch(t, w) ==
  LET success == w.outcome \in {"result", "noData"}
  IN IF success /\ w.outcome = "result"
     THEN /\ timer' = FALSE
          /\ Suspend(t, "deliver", w)
          /\ UNCHANGED results
     ELSE IF success
          THEN Return(t) /\ UNCHANGED <<timer, results>>
          ELSE IF ~success
               THEN Terminal(t, "failed")
               ELSE IF attempts >= maxAttempts(kind)
                    THEN Terminal(t, "timeout")
                    ELSE Return(t) /\ UNCHANGED <<timer, results>>

\* the tick goes on waiting, or the wait has returned and the tick branches
Continue(t, w) ==
  IF w.pc = "returned"
  THEN FalVideoBranch(t, w)
  ELSE Suspend(t, "wait", w) /\ UNCHANGED <<timer, results>>

\* The interval elapses: attempts++, the tick calls the wait.  The safety
\* timeout stands one interval after tick maxAttempts.
FalVideoTimerFire ==
  /\ timer
  /\ BagCardinality(inflight) < MaxInflight
  /\ started <= maxAttempts(kind)
  /\ CountAttempt
  /\ started' = started + 1
  /\ inflight' = inflight (+) SetToBag({Tick("wait",
                   WaitCall("video", FalVideoPollInterval, FalVideoPollInterval))})
  /\ UNCHANGED <<kind, timer, transientErrors, lastStatus, results, consumed,
                 onlyInProgress, transientSeen, previousValue, deliveryThrew>>
  /\ UNCHANGED <<gateVars, dedupVars, quotaVars, calcVars, waitVars>>

FalVideoStatusResolve(t, ok, latency) ==
  /\ t \in Suspended("wait")
  /\ t.resp.pc = "status"
  /\ Continue(t, AfterStatus(t.resp, ok, task, latency))
  /\ UNCHANGED <<kind, attempts, transientErrors, lastStatus, consumed, started,
                 onlyInProgress, transientSeen, previousValue, deliveryThrew>>
  /\ UNCHANGED <<gateVars, dedupVars, quotaVars, calcVars, waitVars>>

FalVideoSleepResolve(t) ==
  /\ t \in Suspended("wait")
  /\ t.resp.pc = "sleep"
  /\ Continue(t, AfterSleep(t.resp))
  /\ UNCHANGED <<kind, attempts, transientErrors, lastStatus, consumed, started,
                 onlyInProgress, transientSeen, previousValue, deliveryThrew>>
  /\ UNCHANGED <<gateVars, dedupVars, quotaVars, calcVars, waitVars>>

FalVideoResultResolve(t, outcome) ==
  /\ t \in Suspended("wait")
  /\ t.resp.pc = "result"
  /\ Continue(t, WaitReturn(t.resp, outcome))
  /\ UNCHANGED <<kind, attempts, transientErrors, lastStatus, consumed, started,
                 onlyInProgress, transientSeen, previousValue, deliveryThrew>>
  /\ UNCHANGED <<gateVars, dedupVars, quotaVars, calcVars, waitVars>>

\* the video has been sent and counted (ok), or sending it threw
FalVideoDeliverResolve(t, ok) ==
  /\ t \in Suspended("deliver")
  /\ results' = Append(results, IF ok THEN "result" ELSE "monitorError")
  /\ consumed' = IF ok THEN consumed + 1 ELSE consumed
  /\ timer' = IF ok THEN timer ELSE FALSE
  /\ deliveryThrew' = (deliveryThrew \/ ~ok)
  /\ Return(t)
  /\ UNCHANGED <<kind, attempts, transientErrors, lastStatus, started,
                 onlyInProgress, transientSeen, previousValue>>
  /\ UNCHANGED <<gateVars, dedupVars, quotaVars, calcVars, waitVars>>

\* setTimeout(() => clearInterval(pollTimer), maxWaitTime + 5000)
SafetyTimeout ==
  /\ timer
  /\ started >= maxAttempts(kind)
  /\ timer' = FALSE
  /\ UNCHANGED <<kind, attempts, transientErrors, lastStatus, inflight, results,
                 consumed, started, onlyInProgress, transientSeen,
                 previousValue, deliveryThrew>>
  /\ UNCHANGED <<gateVars, dedupVars, quotaVars, calcVars, waitVars>>

NextFalVideo ==
  \/ FalVideoTimerFire
  \/ \E s \in FalQueueStatuses : TaskAdvance(s)
  \/ \E t \in BagToSet(inflight) : \E ok \in BOOLEAN : \E latency \in Latencies :
       FalVideoStatusResolve(t, ok, latency)
  \/ \E t \in BagToSet(inflight) : FalVideoSleepResolve(t)
  \/ \E t \in BagToSet(inflight) : \E outcome \in ResultOutcomes :
       FalVideoResultResolve(t, outcome)
  \/ \E t \in BagToSet(inflight) : \E ok \in BOOLEAN : FalVideoDeliverResolve(t, ok)
  \/ SafetyTimeout

SpecFalVideo == InitFalVideo /\ [][NextFalVideo]_vars

\* C38: a tick of handleFalVideoGeneration that finds the task still queued
\* or running is not terminal: while attempts is below maxAttempts it ends
\* without clearing the timer and without reporting an error.
C38_InProgressNotTerminal ==
  [][\A t \in Suspended("wait") :
       (/\ t.resp.reported \cap {"IN_QUEUE", "IN_PROGRESS"} # {}
        /\ CopiesIn(Tick("wait", t.resp), inflight') < CopiesIn(t, inflight)
        /\ t.resp.pc = "sleep"
        /\ attempts < maxAttempts(kind))
       => timer' = timer /\ results' = results]_vars

\* ------------------------------------------------------------------------
\* Properties of the update-id cache
\* ------------------------------------------------------------------------
\* C15: the handlers of an update id run at most once while the id has not
\* been evicted, however often and however simultaneously the update is
\* delivered: handlers run a second time only for an evicted id, and an id
\* whose handlers are running is recorded.
C15_ProcessedOnce ==
  /\ handledTwice \subseteq evicted
  /\ \A id \in BagToSet(handling) : id \notin evicted => Has(id)

\* an update was delivered again while its handler was still awaiting; the
\* second delivery was answered as a duplicate
W_C15_Redelivered ==
  /\ reply.duplicate
  /\ reply.id \in BagToSet(handling)
  /\ reply.id \notin handledTwice

\* C16: the cache never holds more than MAX_PROCESSED_IDS ids; the id of
\* an update whose handlers start is the newest id of the cache; and every
\* change of the cache records one new id at the end, keeps the ids before
\* it in their order and, when the cache was full, drops only the oldest.
C16_BoundedFifo ==
  [][/\ Len(processedUpdateIds') <= MAX_PROCESSED_IDS
     /\ \A id \in BagToSet(handling') :
          CopiesIn(id, handling') > CopiesIn(id, handling) =>
            /\ processedUpdateIds' # <<>>
            /\ processedUpdateIds'[Len(processedUpdateIds')] = id
     /\ processedUpdateIds' # processedUpdateIds =>
          LET n == Len(processedUpdateIds)
              m == Len(processedUpdateIds')
          IN /\ m = IF n < MAX_PROCESSED_IDS THEN n + 1 ELSE MAX_PROCESSED_IDS
             /\ ~Has(processedUpdateIds'[m])
             /\ SubSeq(processedUpdateIds', 1, m - 1)
                  = SubSeq(processedUpdateIds, n - m + 2, n)]_vars

\* more than MAX_PROCESSED_IDS updates were recorded, the first update was
\* dropped from the full cache, and its redelivery was processed again
W_C16_OldestEvicted ==
  /\ Len(processedUpdateIds) = MAX_PROCESSED_IDS
  /\ nextUpdateId > MAX_PROCESSED_IDS + 1
  /\ 1 \in evicted
  /\ 1 \in handledTwice

\* C17: a request that is answered as a duplicate carries a recorded update
\* id, starts no handler, leaves the cache as it is and is answered with
\* success.
C17_DuplicateSkipped ==
  [][(reply'.duplicate /\ reply' # reply) =>
       /\ Has(reply'.id)
       /\ reply'.status = "ok"
       /\ handling' = handling
       /\ handledTwice' = handledTwice
       /\ processedUpdateIds' = processedUpdateIds]_vars

\* the first update was delivered again after its handler had returned and
\* after later updates, and was answered with success
W_C17_DuplicateAnswered ==
  /\ reply = [id |-> 1, status |-> "ok", duplicate |-> TRUE]
  /\ handling = EmptyBag
  /\ handledTwice = {}
  /\ nextUpdateId > 2

\* C37 as stated: the handlers of an update id that threw are never run
\* again, every redelivery of the id is skipped.
C37_ThrownNeverRerun == threw \cap handledTwice = {}

\* C37: an update id stays recorded when its handlers throw: until the id
\* is evicted, a redelivery is skipped as a duplicate and the handlers are
\* not run again; they run again only for an id that has been evicted.
C37_ThrownSkippedUntilEvicted ==
  /\ threw \cap handledTwice \subseteq evicted
  /\ \A id \in threw : id \notin evicted => Has(id)

\* the handler of the first update threw, the webhook answered with an
\* error, and the redelivery of the update was answered as a duplicate
W_C37_ThrownRedelivered ==
  /\ 1 \in threw
  /\ reply = [id |-> 1, status |-> "ok", duplicate |-> TRUE]
  /\ 1 \notin handledTwice
  /\ handling = EmptyBag

\* ------------------------------------------------------------------------
\* Properties of the quota store
\* ------------------------------------------------------------------------
\* a handler that has written amount units of its resource to row p
Consumed(p, requestType, amount) == Call(requestType, amount, "consumed", p, 0)

\* the number of handlers that have written their usage of a resource to
\* row p
Consumers(p, requestType) ==
  BagCardinality([c \in { d \in BagToSet(call) :
                            d.pc = "consumed" /\ d.row = p /\ d.type = requestType }
                    |-> call[c]])

\* C18: in the row of a period, a successful decreaseRequests lowers the
\* remaining count of its resource by exactly its amount, clamped at 0, and
\* nothing but a reset of that row raises a remaining count.
C18_ExactDecrease ==
  [][\A p \in DOMAIN user_quotas : \A requestType \in RequestTypes :
       LET before == Remaining(user_quotas[p], requestType)
           after == Remaining(user_quotas'[p], requestType)
       IN /\ (resetCall.pc = "update" /\ resetCall.row = p /\ resetCall'.pc = "done")
               \/ after <= before
          /\ \A amount \in Amounts :
               CopiesIn(Consumed(p, requestType, amount), call')
                   > CopiesIn(Consumed(p, requestType, amount), call)
                 => after = Max0(before - amount)]_vars

\* C19: no update of a usage counter is lost: each counter holds the sum of
\* the amounts of the decreaseRequests calls that succeeded on its row
\* since the row was last reset.
C19_NoLostUpdate ==
  \A p \in DOMAIN user_quotas : user_quotas[p] = committed[p]

C21_FailClosed ==
  [][\A requestType \in RequestTypes : \A amount \in Amounts :
       CopiesIn(Call(requestType, amount, "generate", 0, 0), call')
           > CopiesIn(Call(requestType, amount, "generate", 0, 0), call)
         => Remaining(WithCurrentRow(user_quotas)[period], requestType) >= amount]_vars

\* C22: a period starts with a fresh record: every row that is added to
\* the table is the row of the period the clock is in, with zero usage, so
\* that the remaining counts of the period are the full limits whatever
\* was used in the periods before.
C22_FreshRecord ==
  [][\A p \in DOMAIN user_quotas' \ DOMAIN user_quotas :
       p = period /\ user_quotas'[p] = ZeroRow]_vars

\* C23: a missing row of the current period is no error: a call of
\* canConsumeRequest returns null and false only when an access to the
\* store failed, also when calls of the same user overlap; a call that
\* got a row answers from the counters of that row.
C23_AbsenceIsNoError ==
  \A c \in BagToSet(call) :
    /\ c.pc = "null" => c.error = "failed"
    /\ c.pc = "got" => /\ c.start \in DOMAIN user_quotas
                       /\ c.remaining = Remaining(user_quotas[c.start], c.type)
                       /\ c.canConsume = (c.remaining >= c.amount)

\* C31: resetUserRequests zeroes the three counters of the record and
\* leaves the period of the user alone: no step of the call changes the
\* period that getAnchoredPeriodForUser computes for the user.
C31_ResetKeepsPeriod ==
  [][userCall' # userCall =>
       /\ getAnchoredPeriodForUser(userRow', now') = getAnchoredPeriodForUser(userRow, now)
       /\ (userCall.pc = "update" /\ userCall'.pc \in {"sync", "done"}) => quotaRow' = ZeroRow]_vars

\* C33: a request that is declined because the quota of its resource is
\* used up is answered with the current remaining counts of text, image
\* and video.
C33_DeclineShowsCounts ==
  \A r \in Reqs :
    (req[r].pc = "done" /\ req[r].out.kind = "declined" /\ req[r].out.remaining = 0)
      => req[r].out.message = AllCounts(getUserStats(asked.limits, quotaRow))

\* C35: a request passes the quota check of its flow only when the record
\* of the user leaves a remaining count above 0 for the resource.
C35_NoSubmitAtZero ==
  \A r \in Reqs : req[r].out.kind = "admitted" => req[r].out.remaining > 0

\* C34: premium_started_at is set exactly when is_premium is true.
C34_ActivationRecorded ==
  userRow.is_premium <=> userRow.premium_started_at # Null

\* C30: the row of a past period is not written: a step changes the
\* counters of a row only if it is the row of the period the clock is in.
C30_PastImmutable ==
  [][\A p \in DOMAIN user_quotas :
       user_quotas'[p] # user_quotas[p] => p = period]_vars

InFlight(r) == req[r].pc = "submit" \/ r \in polling

\* the request is between ongoingTasks.set and the end of its handler
HoldsGate(r) ==
  req[r].flow \in {"goapi", "fal"} /\ req[r].pc \in {"statusMsg", "submit", "deliver"}

\* C3: no two generation tasks of one user and one category are in flight
\* at the same time.
C3_SingleFlight ==
  \A r1, r2 \in Reqs :
    (r1 # r2 /\ req[r1].user = req[r2].user
       /\ Category(req[r1].flow) = Category(req[r2].flow))
      => ~(InFlight(r1) /\ InFlight(r2))

\* C4: the busy entry of a user stays set while a gated task of that user
\* is submitted or polling.
C4_BusyWhileInFlight ==
  \A r \in Reqs :
    (req[r].flow \in {"goapi", "fal"} /\ InFlight(r)) => GateHas(req[r].user)

\* C5: once every handler of a user has returned and none of the user's
\* tasks is polling, the user's busy entry is clear.
C5_GateReleased ==
  \A u \in Users :
    (\A r \in Reqs : req[r].user = u => (req[r].pc = "done" /\ r \notin polling))
      => ~GateHas(u)

\* C6: of the concurrent requests of one user at most one has found the
\* gate free and holds it, and the entry is set while it is held.
C6_AtomicAcquire ==
  \A u \in Users :
    /\ Cardinality({r \in Reqs : req[r].user = u /\ HoldsGate(r)}) <= 1
    /\ (\E r \in Reqs : req[r].user = u /\ HoldsGate(r)) => u \in ongoingTasks

\* one request holds the gate and a concurrent one of the same user was
\* declined with the please-wait reply
W_C6_OneAdmitted ==
  \E r1, r2 \in Reqs :
    /\ r1 # r2
    /\ req[r1].user = req[r2].user
    /\ HoldsGate(r1)
    /\ req[r2].out = "wait"

Sent(msg) == \E i \in 1..Len(results) : results[i] = msg

Stopped == ~timer /\ inflight = EmptyBag

\* C1: a started poller delivers exactly one terminal result: never two,
\* and never zero once it has stopped (its timer is cleared and every tick
\* has returned).
C1_ExactlyOneResult ==
  /\ Len(results) <= 1
  /\ (Stopped /\ ~deliveryThrew) => Len(results) = 1

\* C2: ticks of one poller are strictly sequential: no tick begins while
\* the status check of an earlier tick is still unresolved.
C2_TicksSequential ==
  CopiesIn(Tick("status", NoResp), inflight) <= 1

\* C7: once maxAttempts ticks have run, the poller has reached a terminal
\* state and cancelled its timer, whatever the status checks returned.
C7_TimeoutCeiling ==
  (started >= maxAttempts(kind) /\ inflight = EmptyBag) => ~timer

\* C8: when every status check returns an in-progress status, the poller
\* times out after exactly maxAttempts ticks: no timeout before tick
\* maxAttempts, no tick after it, and the timeout is delivered once that
\* tick has run.
C8_ExactTimeout ==
  onlyInProgress =>
    /\ started <= maxAttempts(kind)
    /\ Sent("timeout") => started = maxAttempts(kind)
    /\ (started >= maxAttempts(kind) /\ inflight = EmptyBag) => Sent("timeout")

\* C9: a status-check failure is reported to the user only once the
\* transient-error counter has reached the threshold of 5.
C9_TransientTolerated ==
  Sent("statusError") => transientErrors >= maxTransientErrors

\* C10 (as stated): a tick whose status check fails transiently does not
\* consume an attempt, so after such a tick fewer attempts have been counted
\* than ticks have started.
C10_TransientNotCounted ==
  (transientSeen /\ timer) => attempts < started

\* C10 (amended): every tick consumes one attempt, also a tick whose status
\* check fails transiently: the attempt counter equals the number of ticks
\* started.
C10_EveryTickCounts ==
  attempts = started

\* a transient failure was skipped by the video poller and polling goes on
W_C10_TransientCounted ==
  /\ kind = "video"
  /\ transientSeen
  /\ timer
  /\ inflight = EmptyBag
  /\ transientErrors >= 2
  /\ attempts = started
  /\ attempts >= 2

\* C11: a terminal state is absorbing: once a terminal message has been
\* sent the timer is cleared and stays cleared, no tick starts, and no
\* further message is sent for the task.
C11_TerminalAbsorbing ==
  [][Len(results) >= 1 =>
       (~timer /\ ~timer' /\ started' = started /\ results' = results)]_vars

\* C12: once sending the result has thrown, the poller is finished: the
\* timer stays cleared, no tick starts, and no result is delivered or
\* counted afterwards.
C12_NoRetryAfterThrow ==
  [][deliveryThrew =>
       (~timer' /\ started' = started /\ ~Sent("result")' /\ consumed' = consumed)]_vars

\* C14: a delivered result is counted exactly once: decreaseRequests has
\* been called once when a result was sent, and never more than once.
C14_ConsumedOnce ==
  /\ consumed <= 1
  /\ Sent("result") <=> consumed = 1

\* C36: a task that ended failed, timed out or completed without an output
\* url has consumed no quota: decreaseRequests was not called for it.
C36_FailureConsumesNothing ==
  (Sent("failed") \/ Sent("timeout") \/ Sent("nourl")) => consumed = 0

\* C32: while the task is in progress the status message is edited only
\* for a response whose status or progress differs from the response
\* before: a tick whose value is unchanged sends no notification.
C32_NotifyOnChange ==
  [][\A r \in Responses(kind) :
       (InProgress(r) /\ CopiesIn(Tick("notify", r), inflight') > CopiesIn(Tick("notify", r), inflight))
         => <<r.status, r.progress>> # previousValue]_vars

\* ------------------------------------------------------------------------
\* Properties of the period calculator
\* ------------------------------------------------------------------------
\* the day number of a formatted date
DayOf(s) == MakeDay(s[1], s[2] - 1, s[3])

Min(a, b) == IF a < b THEN a ELSE b

\* the day of the month the periods of a premium user are anchored to
PremiumAnchorDay ==
  getUTCDate(AnchorOf(userRow.premium_started_at, userRow.created_at, anchored.at))

\* the day the periods of a free user are counted from
FreeAnchorDay ==
  AnchorOf(userRow.free_period_start, userRow.created_at, anchored.at).day

\* a period has been computed for a premium, for a free user
ForPremium == anchored # NoPeriod /\ userRow.is_premium

ForFree == anchored # NoPeriod /\ ~userRow.is_premium

\* the anchor day in a month, or the last day of the month when the month is
\* shorter; month counts from 0 and may be -1 for December of the year before
ClampedDate(year, month, date) ==
  LET ym == year + month \div 12
      mn == month % 12
  IN DateUTC(ym, mn, Min(date, DaysInMonth(ym, mn)))

\* C24: the computed period contains the instant it was computed for:
\* start <= now <= end as UTC calendar dates.
C24_ContainsNow ==
  anchored # NoPeriod =>
    /\ DayOf(anchored.start) <= anchored.at.day
    /\ anchored.at.day <= DayOf(anchored.end)

\* C25: the period of a premium user starts on the anchor day of the month
\* of the clock, or of the month before when that day is still to come,
\* and on the last day of that month when the month has no such day.
C25_AnchorClamped ==
  ForPremium =>
    LET year == getUTCFullYear(anchored.at)
        month == getUTCMonth(anchored.at)
        thisMonth == ClampedDate(year, month, PremiumAnchorDay)
    IN anchored.start =
         formatDateUTC(IF After(thisMonth, anchored.at)
                       THEN ClampedDate(year, month - 1, PremiumAnchorDay)
                       ELSE thisMonth)

\* C26: when the anchor day of a premium user is still to come in the month
\* of the clock, the period runs from that day of the month before through
\* the day before that day of this month; an activation on 2024-01-31 gives
\* the period 2024-01-31 to 2024-02-29 on 2024-02-15.
C26_PreviousMonthWindow ==
  LET year == getUTCFullYear(anchored.at)
      month == getUTCMonth(anchored.at)
  IN /\ (/\ ForPremium
         /\ PremiumAnchorDay > getUTCDate(anchored.at)
         /\ PremiumAnchorDay <= DaysInMonth(year, month)
         /\ PremiumAnchorDay <= DaysInMonth(year + (month - 1) \div 12, (month - 1) % 12))
        => /\ anchored.start = formatDateUTC(DateUTC(year, month - 1, PremiumAnchorDay))
           /\ anchored.end = formatDateUTC(DateUTC(year, month, PremiumAnchorDay - 1))
     /\ (/\ ForPremium
         /\ userRow.premium_started_at = Iso(2024, 1, 31, 36000000)
         /\ formatDateUTC(anchored.at) = <<2024, 2, 15>>)
        => /\ anchored.start = <<2024, 1, 31>>
           /\ anchored.end = <<2024, 2, 29>>

\* the user row names the anchor, so that it is the same at every instant
AnchorFixed ==
  \/ userRow.created_at # Null
  \/ IF userRow.is_premium THEN userRow.premium_started_at # Null
     ELSE userRow.free_period_start # Null

\* C27: the periods computed at successive instants for one user are one
\* and the same period, or the later starts the day after the earlier ends.
C27_PeriodsContiguous ==
  (previous # NoPeriod /\ AnchorFixed) =>
    \/ anchored.start = previous.start /\ anchored.end = previous.end
    \/ DayOf(anchored.start) = DayOf(previous.end) + 1

AskedLimit == limitFor(asked.limits, asked.type)

AskedUsed == quotaRow[mapRequestTypeToColumn(asked.type)]

\* C29: the remaining count is the limit less the usage and 0 when the
\* usage is above the limit, and canConsume is true exactly when the
\* remaining count is at least the amount; with limit 100 and 97 used the
\* remaining count is 3 and canConsume of 5 is false.
C29_RemainingAndCanConsume ==
  /\ answer.pc # "new" =>
       /\ answer.remaining >= 0
       /\ AskedUsed <= AskedLimit => answer.remaining + AskedUsed = AskedLimit
       /\ AskedUsed > AskedLimit => answer.remaining = 0
       /\ (AskedLimit = 100 /\ AskedUsed = 97) => answer.remaining = 3
  /\ answer.pc = "done" =>
       /\ answer.canConsume <=> answer.remaining >= asked.amount
       /\ (AskedLimit = 100 /\ AskedUsed = 97 /\ asked.amount = 5) => ~answer.canConsume

\* canConsumeRequest of 5 text requests has answered false for the user
\* who has used 97 of 100
W_C29_ThreeLeft ==
  /\ answer.pc = "done"
  /\ asked.type = "text_req_left"
  /\ asked.limits.text = 100
  /\ quotaRow.text_used = 97
  /\ asked.amount = 5
  /\ answer.remaining = 3
  /\ ~answer.canConsume

TypeOK ==
  /\ kind \in Kinds
  /\ timer \in BOOLEAN
  /\ attempts \in Nat
  /\ BagCardinality(inflight) <= MaxInflight
  /\ BagCardinality(handling) <= MaxConnections
  /\ nextUpdateId \in Nat
  /\ period \in 1..MaxPeriods
  /\ BagCardinality(call) <= MaxRequests

====
